---- MODULE Spec2Model ----
(***************************************************************************)
(* Model of the SQL chatbot: app.py (one Streamlit script run per user     *)
(* interaction: schema introspection, SQL generation, safety gate, query   *)
(* execution, answer synthesis) and Chinhook/deploy.py (the CSV loader).   *)
(*                                                                         *)
(* Python strings that the code inspects character by character (the LLM   *)
(* response, the generated SQL) are sequences of one-character strings.    *)
(* Python None is the string "None" where the variable otherwise holds a   *)
(* name, and the empty sequence where it holds text.                       *)
(***************************************************************************)
EXTENDS Integers, Sequences, FiniteSets, TLC

VARIABLES
    program,            \* which script runs: "app" or "deploy"
    GOOGLE_API_KEY,     \* os.getenv("GOOGLE_API_KEY"): "None" or a key
    DB_URL,             \* os.getenv("DB_URL"): "None" or a url
    catalog,            \* rows of information_schema.columns, as ORDER BY returns them
    engine_cached,      \* st.cache_resource holds the result of get_db_engine
    llm_cached,         \* st.cache_resource holds the result of get_llm
    pc,                 \* position of the script run
    conn_open,          \* connections checked out of the engine and not yet released
    row_idx,            \* rows of the schema result consumed by the for loop
    schema_string,      \* get_schema's local: the lines built so far
    current_table,      \* get_schema's local
    schema,             \* __main__'s schema
    user_question,      \* __main__'s user_question
    response,           \* raw text the LLM returned to generate_sql_query
    sql_query,          \* __main__'s sql_query
    clean_query_check,  \* __main__'s clean_query_check
    verdict,            \* branch the safety gate took: "None", "Approved", "Rejected"
    result_df,          \* __main__'s result_df, by its shape
    limited_rows,       \* rows of data_df.head(15) put into the summarization prompt
    answer,             \* __main__'s answer
    shown,              \* what the page displays in this run, in order
    db_log,             \* statements sent to the database in this run, in order
    llm_calls,          \* llm.invoke calls of this run, in order
    raised,             \* the calls that raised an exception in this run, in order
    file_idx,           \* deploy.py: files of file_list handled so far
    uploaded            \* deploy.py: tables replaced in the database

vars == <<program, GOOGLE_API_KEY, DB_URL, catalog, engine_cached, llm_cached, pc,
          conn_open, row_idx, schema_string, current_table, schema, user_question,
          response, sql_query, clean_query_check, verdict, result_df, limited_rows,
          answer, shown, db_log, llm_calls, raised, file_idx, uploaded>>

\* ------------------------------------------------------------------ bounds

MaxRows == 3          \* rows of the catalog
MaxResultRows == 2    \* rows a generated query returns
MaxResultCols == 1    \* columns a generated query returns

\* ------------------------------------------------------------ str methods

UpperLetters == <<"A", "B", "C", "D", "E", "F", "G", "H", "I", "J", "K", "L", "M",
                  "N", "O", "P", "Q", "R", "S", "T", "U", "V", "W", "X", "Y", "Z">>
LowerLetters == <<"a", "b", "c", "d", "e", "f", "g", "h", "i", "j", "k", "l", "m",
                  "n", "o", "p", "q", "r", "s", "t", "u", "v", "w", "x", "y", "z">>

LowerChar(c) ==
    IF \E i \in 1..26 : UpperLetters[i] = c
    THEN LowerLetters[CHOOSE i \in 1..26 : UpperLetters[i] = c]
    ELSE c

lower_identity(s) == s
\* str.lower()
lower(s) == [i \in 1..Len(s) |-> LowerChar(s[i])]

\* the characters str.strip() removes
IsSpace(c) == c \in {" ", "\t", "\n", "\r", "\f"}

RECURSIVE lstrip(_)
lstrip(s) == IF s # <<>> /\ IsSpace(Head(s)) THEN lstrip(Tail(s)) ELSE s

RECURSIVE rstrip(_)
rstrip(s) ==
    IF s # <<>> /\ IsSpace(s[Len(s)]) THEN rstrip(SubSeq(s, 1, Len(s) - 1)) ELSE s

\* str.strip()
strip(s) == rstrip(lstrip(s))

\* str.startswith(prefix)
startswith(s, prefix) ==
    Len(s) >= Len(prefix) /\ SubSeq(s, 1, Len(prefix)) = prefix

\* str.startswith(tuple of prefixes)
startswith_any(s, prefixes) == \E p \in prefixes : startswith(s, p)

\* ------------------------------------------------------------------ re.sub

\* the pattern, a literal, matches s at position i
MatchesAt(pattern, s, i, ignorecase) ==
    /\ i + Len(pattern) - 1 <= Len(s)
    /\ \A k \in 1..Len(pattern) :
          IF ignorecase
          THEN LowerChar(s[i + k - 1]) = LowerChar(pattern[k])
          ELSE s[i + k - 1] = pattern[k]

RECURSIVE SubFrom(_, _, _, _)
SubFrom(pattern, s, i, ignorecase) ==
    IF i > Len(s) THEN <<>>
    ELSE IF MatchesAt(pattern, s, i, ignorecase)
         THEN SubFrom(pattern, s, i + Len(pattern), ignorecase)
         ELSE <<s[i]>> \o SubFrom(pattern, s, i + 1, ignorecase)

\* re.sub(pattern, "", s, flags): every non-overlapping match, left to right, deleted
re_sub(pattern, s, ignorecase) == SubFrom(pattern, s, 1, ignorecase)

\* the backquote character (a backquote cannot be written inside a TLA+ string)
BQ == "BACKQUOTE"

\* the two patterns of clean_sql
FENCE_SQL == <<BQ, BQ, BQ, "s", "q", "l">>
FENCE == <<BQ, BQ, BQ>>

clean_sql_case_sensitive(sql_text) ==
    strip(re_sub(FENCE, re_sub(FENCE_SQL, sql_text, FALSE), FALSE))
\* clean_sql
clean_sql(sql_text) ==
    strip(re_sub(FENCE, re_sub(FENCE_SQL, sql_text, TRUE), FALSE))

\* --------------------------------------------------------------- get_schema

\* table names in the order ORDER BY table_name gives them
TableNames == <<"Album", "Artist">>
ColumnNames == {"Id", "Name"}

TableRank(name) == CHOOSE i \in 1..Len(TableNames) : TableNames[i] = name

CatalogRows == [table_name : {TableNames[i] : i \in 1..Len(TableNames)},
                column_name : ColumnNames]

\* what the inspector query can return: rows ordered by table (ORDER BY table_name,
\* ordinal_position), a column name at most once in a table
Catalogs ==
    UNION {{c \in [1..n -> CatalogRows] :
               /\ \A i \in 1..n, j \in 1..n :
                     i < j => TableRank(c[i].table_name) <= TableRank(c[j].table_name)
               /\ \A i \in 1..n, j \in 1..n : i # j => c[i] # c[j]}
           : n \in 0..MaxRows}

\* the pieces of text get_schema appends, each a line: <<prefix, name>>
TableLine(table_name) == <<"Table: ", table_name>>
ColumnLine(column_name) == <<"  - ", column_name>>
BlankLine == <<"", "">>

get_schema_row_no_update(st, row) ==
    LET new == row.table_name # st.current_table
        s0 == IF new /\ st.current_table # "None"
              THEN Append(st.schema_string, BlankLine) ELSE st.schema_string
        s1 == IF new THEN Append(s0, TableLine(row.table_name)) ELSE s0
    IN [schema_string |-> Append(s1, ColumnLine(row.column_name)),
        current_table |-> IF st.current_table = "None" THEN row.table_name
                          ELSE st.current_table]
\* one iteration of get_schema's for loop
get_schema_row(st, row) ==
    LET new == row.table_name # st.current_table
        s0 == IF new /\ st.current_table # "None"
              THEN Append(st.schema_string, BlankLine) ELSE st.schema_string
        s1 == IF new THEN Append(s0, TableLine(row.table_name)) ELSE s0
    IN [schema_string |-> Append(s1, ColumnLine(row.column_name)),
        current_table |-> IF new THEN row.table_name ELSE st.current_table]

schema_falsy_never(s) == FALSE
\* "not schema" for a string
schema_falsy(s) == s = <<>>

\* ------------------------------------------------------- the LLM's responses

open_sql == <<BQ, BQ, BQ, "s", "q", "l", "\n">>
open_SQL == <<BQ, BQ, BQ, "S", "Q", "L", "\n">>
open_bare == <<BQ, BQ, BQ, "\n">>
open_psql == <<BQ, BQ, BQ, "p", "s", "q", "l", "\n">>
open_inline == <<BQ, BQ, BQ, "s", "q", "l", " ">>
open_ws == <<" ", "\n">>
body_SELECT == <<"S", "E", "L", "E", "C", "T", " ", "1">>
body_select == <<"s", "e", "l", "e", "c", "t", " ", "1">>
body_With == <<"W", "i", "t", "h", " ", "x">>
body_DROP == <<"D", "R", "O", "P", " ", "t">>
body_update == <<"u", "p", "d", "a", "t", "e", " ", "t">>
body_selec == <<"s", "e", "l", "e", "c">>
body_prose == <<"O", "k", ":", " ", "s", "e", "l", "e", "c", "t">>
body_tabSelect == <<"\t", "S", "e", "l", "e", "c", "t", " ", "1">>
close_fence == <<"\n", BQ, BQ, BQ>>
close_fence_nl == <<"\n", BQ, BQ, BQ, "\n">>
close_ws == <<" ">>

Openers == {<<>>, open_sql, open_SQL, open_bare, open_psql, open_inline, open_ws}
Bodies == {<<>>, body_SELECT, body_select, body_With, body_DROP, body_update, body_selec, body_prose, body_tabSelect}
Closers == {<<>>, close_fence, close_fence_nl, close_ws}

\* the texts llm.invoke may return for the generation prompt
Responses == {o \o b \o c : o \in Openers, b \in Bodies, c \in Closers}

generate_sql_query_default(r) ==
    IF r.raised THEN [ret |-> body_select, error |-> TRUE]
    ELSE [ret |-> clean_sql(r.text), error |-> FALSE]
\* generate_sql_query, given what llm.invoke did
generate_sql_query(r) ==
    IF r.raised THEN [ret |-> <<>>, error |-> TRUE]
    ELSE [ret |-> clean_sql(r.text), error |-> FALSE]

\* --------------------------------------------------------------- safety gate

KW_select == <<"s", "e", "l", "e", "c", "t">>
KW_with == <<"w", "i", "t", "h">>
KW_update == <<"u", "p", "d", "a", "t", "e">>

allowed_starts_wide == {KW_select, KW_with, KW_update}
allowed_starts == {KW_select, KW_with}

\* ------------------------------------------------------------------ pandas

\* pd.DataFrame()
EmptyFrame == [rows |-> 0, cols |-> 0]

\* the shapes pd.read_sql can return
Frames == [rows : 0..MaxResultRows, cols : 0..MaxResultCols]

df_empty_never(df) == FALSE
\* DataFrame.empty: some axis has length 0
df_empty(df) == df.rows = 0 \/ df.cols = 0

HEAD_ROWS == 15
\* len(data_df.head(15))
head_rows(df) == IF df.rows < HEAD_ROWS THEN df.rows ELSE HEAD_ROWS

get_natural_language_response_raise(r) ==
    IF r.raised THEN [ret |-> "None", error |-> TRUE, propagated |-> TRUE]
    ELSE [ret |-> r.text, error |-> FALSE, propagated |-> FALSE]
\* get_natural_language_response, given what llm.invoke did
get_natural_language_response(r) ==
    IF r.raised
    THEN [ret |-> "Error generating response.", error |-> TRUE, propagated |-> FALSE]
    ELSE [ret |-> r.text, error |-> FALSE, propagated |-> FALSE]

\* -------------------------------------------------------------- connections

conn_enter(n) == n + 1

conn_exit_leak(n) == n
\* leaving "with engine.connect() as conn", normally or by an exception
conn_exit(n) == n - 1

\* ---------------------------------------------------------------- questions

Questions == {"", "How many customers are there?"}

\* ----------------------------------------------------------------- messages

MsgException == "uncaught exception"
MsgSchemaError == "st.error: Error fetching schema"
MsgGenError == "st.error: Error generating SQL query"
MsgCode == "st.code: sql_query"
MsgWarning == "st.warning: LLM did not generate a valid SELECT or WITH query. Cannot execute."
MsgDataframe == "st.dataframe: result_df"
MsgExecError == "st.error: Error executing SQL"
MsgNlError == "st.error: Error generating natural language response"
MsgAnswer == "st.markdown: Answer"
MsgNoDbUrl == "print: Error: DB_URL not found in .env file!"
MsgUploaded == "print: Successfully uploaded"
MsgUploadError == "print: Error uploading"
MsgVerifying == "print: Verifying table Artist"
MsgRows == "print: rows"
MsgNotVerified == "print: Could not verify"

\* the calls that can raise
CallGetLlm == "line 55: GoogleGenerativeAI"
CallCreateEngine == "line 23: create_engine"
CallSchemaConnect == "line 36: engine.connect"
CallSchemaExecute == "line 37: conn.execute"
CallSchemaFetch == "line 39: for row in result"
CallGenerate == "line 94: llm.invoke"
CallExecConnect == "line 155: engine.connect"
CallReadSql == "line 157: pd.read_sql"
CallSummarize == "line 124: llm.invoke"
CallUpload == "deploy.py line 27-34: read_csv, to_sql"
CallDeployConnect == "deploy.py line 42: engine.connect"
CallDeployVerify == "deploy.py line 45: conn.execute"

InspectorQuery == [kind |-> "inspector_query", text |-> <<>>]
GeneratedQuery(q) == [kind |-> "sql_query", text |-> q]
VerifyQuery == [kind |-> "verify_query", text |-> <<>>]

\* ---------------------------------------------------------------- deploy.py

file_list == << <<"Album", "csv">>, <<"Artist", "csv">>, <<"Customer", "csv">>,
                <<"Employee", "csv">>, <<"Genre", "csv">>, <<"Invoice", "csv">>,
                <<"InvoiceLine", "csv">>, <<"MediaType", "csv">>, <<"Playlist", "csv">>,
                <<"PlaylistTrack", "csv">>, <<"Track", "csv">> >>

\* file.split('.')[0]
table_name_of(file) == file[1]

\* ------------------------------------------------------------------- state

env == <<program, GOOGLE_API_KEY, DB_URL, catalog>>
caches == <<engine_cached, llm_cached>>
schema_locals == <<row_idx, schema_string, current_table>>
request == <<user_question, response, sql_query, clean_query_check, verdict,
             result_df, limited_rows, answer>>
deploy == <<file_idx, uploaded>>

Init ==
    /\ program \in {"app", "deploy"}
    /\ DB_URL \in {"None", "postgresql://db"}
    \* deploy.py reads neither the key nor the catalog
    /\ GOOGLE_API_KEY \in (IF program = "app" THEN {"None", "key"} ELSE {"None"})
    /\ catalog \in (IF program = "app" THEN Catalogs ELSE {<<>>})
    /\ engine_cached = FALSE
    /\ llm_cached = FALSE
    /\ pc = (IF program = "app" THEN "load" ELSE "deploy_check")
    /\ conn_open = 0
    /\ row_idx = 0
    /\ schema_string = <<>>
    /\ current_table = "None"
    /\ schema = <<>>
    /\ user_question = ""
    /\ response = <<>>
    /\ sql_query = <<>>
    /\ clean_query_check = <<>>
    /\ verdict = "None"
    /\ result_df = EmptyFrame
    /\ limited_rows = 0
    /\ answer = "None"
    /\ shown = <<>>
    /\ db_log = <<>>
    /\ llm_calls = <<>>
    /\ raised = <<>>
    /\ file_idx = 0
    /\ uploaded = {}

\* an exception no handler catches: Streamlit displays it and the run ends
Uncaught(call) ==
    /\ raised' = Append(raised, call)
    /\ pc' = "crashed"
    /\ shown' = Append(shown, MsgException)

\* --------------------------------------------------------- app.py, top level

\* Whether GoogleGenerativeAI(model, api_key) raises. The constructor is library
\* code; app.py passes GOOGLE_API_KEY to it unchecked. With a key it returns; with
\* None it raises or returns a client whose calls fail, depending on the library.
GetLlmRaises == IF llm_cached \/ GOOGLE_API_KEY # "None" THEN {FALSE} ELSE {TRUE, FALSE}

\* lines 10-57: the module's top level up to llm = get_llm()
LoadModule ==
    /\ pc = "load"
    /\ \E raises \in GetLlmRaises :
          IF raises
          THEN Uncaught(CallGetLlm) /\ UNCHANGED llm_cached
          ELSE /\ llm_cached' = TRUE
               /\ pc' = "get_schema"
               /\ UNCHANGED <<shown, raised>>
    /\ UNCHANGED <<env, engine_cached, conn_open, schema_locals, schema, request,
                   db_log, llm_calls, deploy>>

\* ------------------------------------------------------- app.py, get_schema

\* line 26, engine = get_db_engine(), outside the try: create_engine(None) raises
GetDbEngine ==
    /\ pc = "get_schema"
    /\ IF engine_cached
       THEN pc' = "schema_connect" /\ UNCHANGED <<engine_cached, shown, raised>>
       ELSE IF DB_URL = "None"
            THEN Uncaught(CallCreateEngine) /\ UNCHANGED engine_cached
            ELSE /\ engine_cached' = TRUE
                 /\ pc' = "schema_connect"
                 /\ UNCHANGED <<shown, raised>>
    /\ UNCHANGED <<env, llm_cached, conn_open, schema_locals, schema, request,
                   db_log, llm_calls, deploy>>

\* lines 47-49: the except branch of get_schema
SchemaFailed(call) ==
    /\ raised' = Append(raised, call)
    /\ shown' = Append(shown, MsgSchemaError)
    /\ schema' = <<>>
    /\ row_idx' = 0
    /\ schema_string' = <<>>
    /\ current_table' = "None"
    /\ pc' = "schema_check"

\* line 36: with engine.connect() as conn
SchemaConnect ==
    /\ pc = "schema_connect"
    /\ \E ok \in BOOLEAN :
          IF ok
          THEN /\ conn_open' = conn_enter(conn_open)
               /\ pc' = "schema_execute"
               /\ UNCHANGED <<shown, raised, schema, schema_locals>>
          ELSE SchemaFailed(CallSchemaConnect) /\ UNCHANGED conn_open
    /\ UNCHANGED <<env, caches, request, db_log, llm_calls, deploy>>

\* lines 37-38: result = conn.execute(inspector_query); current_table = None
SchemaExecute ==
    /\ pc = "schema_execute"
    /\ db_log' = Append(db_log, InspectorQuery)
    /\ \E ok \in BOOLEAN :
          IF ok
          THEN /\ row_idx' = 0
               /\ schema_string' = <<>>
               /\ current_table' = "None"
               /\ pc' = "schema_rows"
               /\ UNCHANGED <<shown, raised, schema, conn_open>>
          ELSE SchemaFailed(CallSchemaExecute) /\ conn_open' = conn_exit(conn_open)
    /\ UNCHANGED <<env, caches, request, llm_calls, deploy>>

\* lines 39-46: one iteration of the for loop
SchemaRow ==
    /\ pc = "schema_rows"
    /\ row_idx < Len(catalog)
    /\ LET st == get_schema_row([schema_string |-> schema_string,
                                 current_table |-> current_table],
                                catalog[row_idx + 1])
       IN /\ schema_string' = st.schema_string
          /\ current_table' = st.current_table
    /\ row_idx' = row_idx + 1
    /\ UNCHANGED <<env, raised, caches, pc, conn_open, schema, request, shown, db_log,
                   llm_calls, deploy>>

\* line 39: fetching the next row raises
SchemaFetchError ==
    /\ pc = "schema_rows"
    /\ SchemaFailed(CallSchemaFetch)
    /\ conn_open' = conn_exit(conn_open)
    /\ UNCHANGED <<env, caches, request, db_log, llm_calls, deploy>>

\* lines 39, 50 and 133: the loop ends, the with block is left, schema = get_schema()
SchemaReturn ==
    /\ pc = "schema_rows"
    /\ row_idx = Len(catalog)
    /\ conn_open' = conn_exit(conn_open)
    /\ schema' = schema_string
    /\ row_idx' = 0
    /\ schema_string' = <<>>
    /\ current_table' = "None"
    /\ pc' = "schema_check"
    /\ UNCHANGED <<env, raised, caches, request, shown, db_log, llm_calls, deploy>>

\* lines 134-135: if not schema: st.stop()
SchemaCheck ==
    /\ pc = "schema_check"
    /\ pc' = (IF schema_falsy(schema) THEN "stopped" ELSE "input")
    /\ UNCHANGED <<env, raised, caches, conn_open, schema_locals, schema, request, shown,
                   db_log, llm_calls, deploy>>

\* ---------------------------------------------------------- app.py, request

\* lines 137-138: the text input and the button
Input ==
    /\ pc = "input"
    /\ \E q \in Questions, button \in BOOLEAN :
          /\ user_question' = q
          /\ pc' = (IF button /\ q # "" THEN "generate" ELSE "done")
    /\ UNCHANGED <<env, raised, caches, conn_open, schema_locals, schema, response, sql_query,
                   clean_query_check, verdict, result_df, limited_rows, answer, shown,
                   db_log, llm_calls, deploy>>

\* lines 140, 72-94: generate_sql_query builds the prompt and calls llm.invoke
GenerateInvoke ==
    /\ pc = "generate"
    /\ llm_calls' = Append(llm_calls, "generate_sql_query")
    /\ pc' = "gen_llm"
    /\ UNCHANGED <<env, raised, caches, conn_open, schema_locals, schema, request, shown,
                   db_log, deploy>>

\* what llm.invoke does with the generation prompt
GenerationOutcomes ==
    {[raised |-> TRUE, text |-> <<>>]} \cup {[raised |-> FALSE, text |-> t] : t \in Responses}

\* lines 94-98 and 140-141: llm.invoke returns or raises; st.code(sql_query)
GenerateReturn ==
    /\ pc = "gen_llm"
    /\ \E r \in GenerationOutcomes :
          LET g == generate_sql_query(r)
          IN /\ response' = r.text
             /\ sql_query' = g.ret
             /\ raised' = (IF r.raised THEN Append(raised, CallGenerate) ELSE raised)
             /\ shown' = (IF g.error THEN Append(shown, MsgGenError) ELSE shown)
                         \o <<MsgCode>>
    /\ pc' = "gate"
    /\ UNCHANGED <<env, caches, conn_open, schema_locals, schema, user_question,
                   clean_query_check, verdict, result_df, limited_rows, answer, db_log,
                   llm_calls, deploy>>

\* lines 145-151: the safety gate
SafetyGate ==
    /\ pc = "gate"
    /\ clean_query_check' = strip(lower(sql_query))
    /\ IF ~ startswith_any(clean_query_check', allowed_starts)
       THEN /\ shown' = Append(shown, MsgWarning)
            /\ result_df' = EmptyFrame
            /\ verdict' = "Rejected"
            /\ pc' = "answer_check"
       ELSE /\ verdict' = "Approved"
            /\ pc' = "exec_connect"
            /\ UNCHANGED <<shown, result_df>>
    /\ UNCHANGED <<env, raised, caches, conn_open, schema_locals, schema, user_question,
                   response, sql_query, limited_rows, answer, db_log, llm_calls, deploy>>

\* lines 159-161: the except branch of the executor
ExecFailed(call) ==
    /\ raised' = Append(raised, call)
    /\ shown' = Append(shown, MsgExecError)
    /\ result_df' = EmptyFrame
    /\ pc' = "answer_check"

\* lines 154-155: engine = get_db_engine() (cached); with engine.connect() as conn
ExecConnect ==
    /\ pc = "exec_connect"
    /\ \E ok \in BOOLEAN :
          IF ok
          THEN /\ conn_open' = conn_enter(conn_open)
               /\ pc' = "exec_read"
               /\ UNCHANGED <<shown, raised, result_df>>
          ELSE ExecFailed(CallExecConnect) /\ UNCHANGED conn_open
    /\ UNCHANGED <<env, caches, schema_locals, schema, user_question, response,
                   sql_query, clean_query_check, verdict, limited_rows, answer, db_log,
                   llm_calls, deploy>>

\* lines 157-158: result_df = pd.read_sql(text(sql_query), conn); st.dataframe
ExecRead ==
    /\ pc = "exec_read"
    /\ db_log' = Append(db_log, GeneratedQuery(sql_query))
    /\ conn_open' = conn_exit(conn_open)
    /\ \E ok \in BOOLEAN :
          IF ok
          THEN /\ \E df \in Frames : result_df' = df
               /\ shown' = Append(shown, MsgDataframe)
               /\ pc' = "answer_check"
               /\ UNCHANGED raised
          ELSE ExecFailed(CallReadSql)
    /\ UNCHANGED <<env, caches, schema_locals, schema, user_question, response,
                   sql_query, clean_query_check, verdict, limited_rows, answer,
                   llm_calls, deploy>>

\* lines 164-165 and 104-124: if not result_df.empty, get_natural_language_response
\* renders head(15) (to_markdown, or to_string when that raises) and calls llm.invoke
AnswerCheck ==
    /\ pc = "answer_check"
    /\ IF ~ df_empty(result_df)
       THEN /\ limited_rows' = head_rows(result_df)
            /\ llm_calls' = Append(llm_calls, "get_natural_language_response")
            /\ pc' = "nl_llm"
       ELSE /\ pc' = "done"
            /\ UNCHANGED <<limited_rows, llm_calls>>
    /\ UNCHANGED <<env, raised, caches, conn_open, schema_locals, schema, user_question,
                   response, sql_query, clean_query_check, verdict, result_df, answer,
                   shown, db_log, deploy>>

\* what llm.invoke does with the summarization prompt
SummaryOutcomes ==
    {[raised |-> TRUE, text |-> "None"], [raised |-> FALSE, text |-> "LLM answer"]}

\* lines 124-128 and 165-166: llm.invoke returns or raises; st.markdown(answer)
AnswerReturn ==
    /\ pc = "nl_llm"
    /\ \E r \in SummaryOutcomes :
          LET a == get_natural_language_response(r)
          IN IF a.propagated
             THEN Uncaught(CallSummarize) /\ UNCHANGED answer
             ELSE /\ answer' = a.ret
                  /\ raised' = (IF r.raised THEN Append(raised, CallSummarize)
                                ELSE raised)
                  /\ shown' = (IF a.error THEN Append(shown, MsgNlError) ELSE shown)
                              \o <<MsgAnswer>>
                  /\ pc' = "done"
    /\ UNCHANGED <<env, caches, conn_open, schema_locals, schema, user_question,
                   response, sql_query, clean_query_check, verdict, result_df,
                   limited_rows, db_log, llm_calls, deploy>>

\* the next interaction: Streamlit runs the script again from the top; only the
\* st.cache_resource entries survive
Rerun ==
    /\ program = "app"
    /\ pc \in {"done", "stopped", "crashed"}
    /\ pc' = "load"
    /\ row_idx' = 0
    /\ schema_string' = <<>>
    /\ current_table' = "None"
    /\ schema' = <<>>
    /\ user_question' = ""
    /\ response' = <<>>
    /\ sql_query' = <<>>
    /\ clean_query_check' = <<>>
    /\ verdict' = "None"
    /\ result_df' = EmptyFrame
    /\ limited_rows' = 0
    /\ answer' = "None"
    /\ shown' = <<>>
    /\ db_log' = <<>>
    /\ llm_calls' = <<>>
    /\ raised' = <<>>
    /\ UNCHANGED <<env, caches, conn_open, deploy>>

\* ---------------------------------------------------------------- deploy.py

\* lines 19-22: if not DB_URL: print(...) else: engine = create_engine(DB_URL)
DeployCheck ==
    /\ pc = "deploy_check"
    /\ IF DB_URL = "None"
       THEN /\ shown' = Append(shown, MsgNoDbUrl)
            /\ pc' = "deploy_done"
       ELSE /\ pc' = "deploy_upload"
            /\ UNCHANGED shown
    /\ UNCHANGED <<env, raised, caches, conn_open, schema_locals, schema, request, db_log,
                   llm_calls, deploy>>

\* lines 24-39: one file of file_list: read_csv and to_sql succeed, or one raises
DeployUpload ==
    /\ pc = "deploy_upload"
    /\ file_idx < Len(file_list)
    /\ file_idx' = file_idx + 1
    /\ \E ok \in BOOLEAN :
          IF ok
          THEN /\ uploaded' = uploaded \cup {table_name_of(file_list[file_idx + 1])}
               /\ shown' = Append(shown, MsgUploaded)
               /\ UNCHANGED raised
          ELSE /\ shown' = Append(shown, MsgUploadError)
               /\ raised' = Append(raised, CallUpload)
               /\ UNCHANGED uploaded
    /\ UNCHANGED <<env, caches, pc, conn_open, schema_locals, schema, request, db_log,
                   llm_calls>>

\* lines 41-42: the loop is over; print; with engine.connect() as conn, outside the try
DeployConnect ==
    /\ pc = "deploy_upload"
    /\ file_idx = Len(file_list)
    /\ \E ok \in BOOLEAN :
          IF ok
          THEN /\ conn_open' = conn_enter(conn_open)
               /\ shown' = Append(shown, MsgVerifying)
               /\ pc' = "deploy_verify"
               /\ UNCHANGED raised
          ELSE /\ shown' = shown \o <<MsgVerifying, MsgException>>
               /\ raised' = Append(raised, CallDeployConnect)
               /\ pc' = "deploy_crashed"
               /\ UNCHANGED conn_open
    /\ UNCHANGED <<env, caches, schema_locals, schema, request, db_log, llm_calls,
                   deploy>>

\* lines 43-49: the verification query, in its own try
DeployVerify ==
    /\ pc = "deploy_verify"
    /\ db_log' = Append(db_log, VerifyQuery)
    /\ conn_open' = conn_exit(conn_open)
    /\ \E ok \in BOOLEAN :
          /\ shown' = Append(shown, IF ok THEN MsgRows ELSE MsgNotVerified)
          /\ raised' = (IF ok THEN raised ELSE Append(raised, CallDeployVerify))
    /\ pc' = "deploy_done"
    /\ UNCHANGED <<env, caches, schema_locals, schema, request, llm_calls, deploy>>

\* ---------------------------------------------------------- specification

Next ==
    \/ LoadModule
    \/ GetDbEngine
    \/ SchemaConnect
    \/ SchemaExecute
    \/ SchemaRow
    \/ SchemaFetchError
    \/ SchemaReturn
    \/ SchemaCheck
    \/ Input
    \/ GenerateInvoke
    \/ GenerateReturn
    \/ SafetyGate
    \/ ExecConnect
    \/ ExecRead
    \/ AnswerCheck
    \/ AnswerReturn
    \/ Rerun
    \/ DeployCheck
    \/ DeployUpload
    \/ DeployConnect
    \/ DeployVerify

Spec == Init /\ [][Next]_vars

\* The safety gate applied to any string: the position after generate_sql_query
\* returned, with sql_query drawn from every text of Responses, untrimmed
InitGate ==
    /\ program = "app"
    /\ DB_URL = "postgresql://db"
    /\ GOOGLE_API_KEY = "key"
    /\ catalog = <<[table_name |-> "Album", column_name |-> "Id"]>>
    /\ engine_cached = TRUE
    /\ llm_cached = TRUE
    /\ pc = "gate"
    /\ conn_open = 0
    /\ row_idx = 0
    /\ schema_string = <<>>
    /\ current_table = "None"
    /\ schema = <<TableLine("Album"), ColumnLine("Id")>>
    /\ user_question \in Questions \ {""}
    /\ response \in Responses
    /\ sql_query = response
    /\ clean_query_check = <<>>
    /\ verdict = "None"
    /\ result_df = EmptyFrame
    /\ limited_rows = 0
    /\ answer = "None"
    /\ shown = <<MsgCode>>
    /\ db_log = <<InspectorQuery>>
    /\ llm_calls = <<"generate_sql_query">>
    /\ raised = <<>>
    /\ file_idx = 0
    /\ uploaded = {}

NextGate ==
    \/ SafetyGate
    \/ ExecConnect
    \/ ExecRead
    \/ AnswerCheck
    \/ AnswerReturn

SpecGate == InitGate /\ [][NextGate]_vars

\* ================================================================== claims

Has(seq, x) == \E i \in 1..Len(seq) : seq[i] = x

White == {" ", "\t", "\n", "\r", "\f"}

\* c is the letter d, in either case
SameLetter(c, d) ==
    c = d \/ \E i \in 1..26 : (LowerLetters[i] = d /\ UpperLetters[i] = c)

\* after leading whitespace, q reads keyword kw, in any case
ReadsKeyword(q, kw) ==
    \E k \in 0..Len(q) :
        /\ \A i \in 1..k : q[i] \in White
        /\ k + Len(kw) <= Len(q)
        /\ \A j \in 1..Len(kw) : SameLetter(q[k + j], kw[j])

StartsWithSelectOrWith(q) ==
    \/ ReadsKeyword(q, <<"s", "e", "l", "e", "c", "t">>)
    \/ ReadsKeyword(q, <<"w", "i", "t", "h">>)

SentGenerated == \E i \in 1..Len(db_log) : db_log[i].kind = "sql_query"

\* C1: the gate's verdict for a string is Approved exactly when the string, after
\* leading whitespace and in any case, starts with select or with; every other
\* string, the empty one included, is Rejected.
C1_VerdictIsPrefixCheck ==
    /\ verdict # "None" =>
          /\ verdict \in {"Approved", "Rejected"}
          /\ (verdict = "Approved") <=> StartsWithSelectOrWith(sql_query)
    /\ (verdict # "None" /\ sql_query = <<>>) => verdict = "Rejected"

\* an untrimmed, upper-case query was approved
C1_Witness ==
    /\ verdict = "Approved"
    /\ sql_query = open_ws \o body_SELECT \o close_ws
    /\ clean_query_check = body_select

\* C2: a generated statement reaches the database only when it starts with
\* select or with (Approved); after a Rejected verdict nothing but the schema query
\* of the run has been sent, no connection is open, no second generation or
\* summarization call is made, and the run ends with the warning shown.
C2_ExecuteOnlyWhenApproved ==
    /\ \A i \in 1..Len(db_log) :
          db_log[i].kind = "sql_query" =>
              /\ verdict = "Approved"
              /\ db_log[i].text = sql_query
              /\ StartsWithSelectOrWith(db_log[i].text)
    /\ verdict = "Rejected" =>
          /\ db_log = <<InspectorQuery>>
          /\ conn_open = 0
          /\ llm_calls = <<"generate_sql_query">>
          /\ Has(shown, MsgWarning)
          /\ ~ Has(shown, MsgDataframe)
          /\ pc \in {"answer_check", "done"}

\* a DROP statement was generated, rejected, and the run is over
C2_Witness ==
    /\ pc = "done"
    /\ verdict = "Rejected"
    /\ sql_query = body_DROP
    /\ ~ Has(raised, CallGenerate)

\* C3: when llm.invoke raises in generate_sql_query the error is shown, the query
\* is empty, no generated statement is sent, no connection is opened and no
\* summarization call is made.
C3_GenerationFailureStops ==
    Has(raised, CallGenerate) =>
        /\ Has(shown, MsgGenError)
        /\ sql_query = <<>>
        /\ verdict # "Approved"
        /\ ~ SentGenerated
        /\ conn_open = 0
        /\ llm_calls = <<"generate_sql_query">>
        /\ pc \in {"gate", "answer_check", "done"}

C3_Witness ==
    /\ Has(raised, CallGenerate)
    /\ pc = "done"

\* C4: a summarization call is made only after an Approved query was sent, the
\* read did not raise and the result has at least one row; after an execution
\* error, a Rejected verdict or an empty result the run ends without one.
C4_SynthesisOnlyAfterRows ==
    /\ Has(llm_calls, "get_natural_language_response") =>
          /\ verdict = "Approved"
          /\ Has(db_log, GeneratedQuery(sql_query))
          /\ ~ Has(raised, CallExecConnect)
          /\ ~ Has(raised, CallReadSql)
          /\ result_df.rows >= 1
          /\ Has(shown, MsgDataframe)
    /\ (pc \in {"nl_llm", "done"} /\ verdict # "None"
          /\ (\/ verdict = "Rejected"
              \/ Has(raised, CallExecConnect)
              \/ Has(raised, CallReadSql)
              \/ result_df.rows = 0)) =>
          /\ pc = "done"
          /\ llm_calls = <<"generate_sql_query">>
          /\ answer = "None"

C4_Witness ==
    /\ pc = "done"
    /\ llm_calls = <<"generate_sql_query", "get_natural_language_response">>
    /\ result_df.rows = MaxResultRows
    /\ answer = "LLM answer"

SchemaRaised ==
    \/ Has(raised, CallSchemaConnect)
    \/ Has(raised, CallSchemaExecute)
    \/ Has(raised, CallSchemaFetch)

\* C5: when the connection, the inspector query or the fetch of its rows raises,
\* get_schema shows the error and returns the empty schema, and the run stops: no
\* question is read, no LLM call is made, no generated statement is sent.
C5_SchemaFailureIsFatal ==
    SchemaRaised =>
        /\ Has(shown, MsgSchemaError)
        /\ schema = <<>>
        /\ pc \in {"schema_check", "stopped"}
        /\ user_question = ""
        /\ llm_calls = <<>>
        /\ ~ SentGenerated
        /\ conn_open = 0

\* the fetch raised, and the run has stopped
C5_Witness ==
    /\ Has(raised, CallSchemaFetch)
    /\ Len(catalog) >= 2
    /\ pc = "stopped"

\* ---- reading a schema description back

IsTableLine(l) == l[1] = "Table: "
IsColumnLine(l) == l[1] = "  - "

\* the table whose block line i of s is in: the last table line before it
OwnerOf(s, i) ==
    LET js == {j \in 1..i : IsTableLine(s[j])}
    IN IF js = {} THEN "None"
       ELSE s[CHOOSE j \in js : \A k \in js : k <= j][2]

\* the (table, column) pairs s lists, in order
ListedPairs(s) ==
    LET idx == SelectSeq([i \in 1..Len(s) |-> i], LAMBDA i : IsColumnLine(s[i]))
    IN [k \in 1..Len(idx) |->
           [table_name |-> OwnerOf(s, idx[k]), column_name |-> s[idx[k]][2]]]

\* the tables s has a block for, in order
ListedTables(s) ==
    LET t == SelectSeq(s, IsTableLine) IN [k \in 1..Len(t) |-> t[k][2]]

FirstRowOf(table) == CHOOSE i \in 1..Len(catalog) :
    /\ catalog[i].table_name = table
    /\ \A j \in 1..(i - 1) : catalog[j].table_name # table

\* get_schema has returned a description in this run
SchemaBuilt ==
    /\ program = "app"
    /\ pc \in {"schema_check", "stopped", "input", "generate", "gen_llm", "gate",
               "exec_connect", "exec_read", "answer_check", "nl_llm", "done"}
    /\ ~ SchemaRaised

\* C6: the description get_schema returns has exactly one block per table of the
\* catalog, the blocks in catalog order, and the columns listed under the tables
\* are exactly the catalog's rows, in catalog order, each under its own table.
C6_SchemaMatchesCatalog ==
    SchemaBuilt =>
        LET tables == ListedTables(schema)
        IN /\ ListedPairs(schema) = catalog
           /\ \A a \in 1..Len(tables), b \in 1..Len(tables) :
                 a # b => tables[a] # tables[b]
           /\ {tables[a] : a \in 1..Len(tables)} =
              {catalog[i].table_name : i \in 1..Len(catalog)}
           /\ \A a \in 1..Len(tables), b \in 1..Len(tables) :
                 a < b => FirstRowOf(tables[a]) < FirstRowOf(tables[b])
           /\ \A i \in 1..Len(schema) :
                 IsTableLine(schema[i]) \/ IsColumnLine(schema[i]) \/ schema[i] = BlankLine
           /\ (schema # <<>> => IsTableLine(schema[1]))

\* two tables, the second with two columns
C6_Witness ==
    /\ SchemaBuilt
    /\ Len(catalog) = 3
    /\ ListedTables(schema) = TableNames
    /\ catalog[2].table_name = "Artist"

\* ---- reading a fenced response

FenceAt(s, i) ==
    /\ i >= 1
    /\ i + 2 <= Len(s)
    /\ s[i] = BQ /\ s[i + 1] = BQ /\ s[i + 2] = BQ

HasFence(s) == \E i \in 1..Len(s) : FenceAt(s, i)

AllWhite(s) == \A i \in 1..Len(s) : s[i] \in White

IsLetter(c) == \E i \in 1..26 : c = LowerLetters[i] \/ c = UpperLetters[i]

\* t is s without its leading and trailing whitespace
IsTrimOf(t, s) ==
    /\ t = <<>> \/ (t[1] \notin White /\ t[Len(t)] \notin White)
    /\ \E i \in 0..Len(s), j \in 0..Len(s) :
          /\ i + j <= Len(s)
          /\ AllWhite(SubSeq(s, 1, i))
          /\ AllWhite(SubSeq(s, Len(s) - j + 1, Len(s)))
          /\ t = SubSeq(s, i + 1, Len(s) - j)

LeadingWhite(s) == CHOOSE k \in 0..Len(s) :
    /\ \A i \in 1..k : s[i] \in White
    /\ k = Len(s) \/ s[k + 1] \notin White

\* The readings of s as a fenced response: whitespace, a fence, a tag of letters
\* (possibly none) up to the end of the line, the inner text with no fence in it,
\* a closing fence, whitespace.
FencedReadings(s) ==
    LET a == LeadingWhite(s)
    IN IF ~ FenceAt(s, a + 1) THEN {}
       ELSE {[tag |-> SubSeq(s, a + 4, ne[1] - 1), inner |-> SubSeq(s, ne[1] + 1, ne[2] - 1)] :
                ne \in {x \in ((a + 4)..Len(s)) \X ((a + 5)..Len(s)) :
                          /\ s[x[1]] = "\n"
                          /\ \A i \in (a + 4)..(x[1] - 1) : IsLetter(s[i])
                          /\ x[2] > x[1]
                          /\ FenceAt(s, x[2])
                          /\ ~ HasFence(SubSeq(s, x[1] + 1, x[2] - 1))
                          /\ AllWhite(SubSeq(s, x[2] + 3, Len(s)))}}

IsSqlTag(tag) ==
    /\ Len(tag) = 3
    /\ SameLetter(tag[1], "s") /\ SameLetter(tag[2], "q") /\ SameLetter(tag[3], "l")

\* llm.invoke returned a text to generate_sql_query in this run
GenerationReturned ==
    /\ pc \in {"gate", "exec_connect", "exec_read", "answer_check", "nl_llm", "done"}
    /\ llm_calls # <<>>
    /\ ~ Has(raised, CallGenerate)

C8_SummaryFailureFallsBack ==
    Has(raised, CallSummarize) =>
        /\ answer = "Error generating response."
        /\ pc = "done"
        /\ Len(shown) >= 2
        /\ shown[Len(shown)] = MsgAnswer
        /\ shown[Len(shown) - 1] = MsgNlError
        /\ ~ Has(shown, MsgException)

C8_Witness ==
    /\ Has(raised, CallSummarize)
    /\ pc = "done"
    /\ result_df.rows >= 1

\* C9: with GOOGLE_API_KEY or DB_URL missing the script goes no further than its
\* start: nothing is sent to the database, no connection is opened, no LLM call is
\* made, and the failure is displayed.
C9_MissingSettingIsFatal ==
    /\ (program = "app" /\ (GOOGLE_API_KEY = "None" \/ DB_URL = "None")) =>
          /\ pc \in {"load", "get_schema", "crashed"}
          /\ db_log = <<>>
          /\ llm_calls = <<>>
          /\ conn_open = 0
          /\ pc = "crashed" => Has(shown, MsgException)
    /\ (program = "deploy" /\ DB_URL = "None") =>
          /\ pc \in {"deploy_check", "deploy_done"}
          /\ db_log = <<>>
          /\ uploaded = {}
          /\ conn_open = 0
          /\ pc = "deploy_done" => Has(shown, MsgNoDbUrl)

\* C10: a connection is held only between engine.connect() and the end of the
\* with block it opens (the schema query and its rows, the generated query, the
\* loader's verification query), never more than one, and none while an LLM call
\* is in progress.
C10_ConnectionsAreScoped ==
    /\ conn_open \in {0, 1}
    /\ (conn_open = 1) <=>
          pc \in {"schema_execute", "schema_rows", "exec_read", "deploy_verify"}
    /\ pc \in {"gen_llm", "nl_llm"} => conn_open = 0

\* the summarization call is in progress after both queries ran
C10_Witness ==
    /\ pc = "nl_llm"
    /\ db_log = <<InspectorQuery, GeneratedQuery(sql_query)>>
    /\ conn_open = 0

====
